---- MODULE Spec2Model ----
(***************************************************************************)
(* Model of the X-ray segmentation pipeline: XRayDataset /                 *)
(* XRayInferenceDataset (src/data/dataset.py) and the training loop        *)
(* train() (src/train.py).                                                 *)
(*                                                                         *)
(* File names are sequences of one-character strings, so that Python's     *)
(* sorted(), os.path.splitext, os.path.dirname and os.path.basename are    *)
(* computed on the characters, as the code computes them.                  *)
(***************************************************************************)
EXTENDS Integers, Sequences, FiniteSets, TLC

VARIABLES
    \* ---- the file system and the configuration read by the datasets ----
    image_files,     \* files under config.DATA.IMAGE_ROOT (relative paths)
    label_files,     \* files under config.DATA.LABEL_ROOT (relative paths)
    test_files,      \* files under config.DATA.TEST_IMAGE_ROOT
    pickle_dir,      \* cache directory: set of <<basename, kind>> files
    has_val_num,     \* hasattr(config.TRAIN, 'VAL_NUM')
    val_num_cfg,     \* config.TRAIN.VAL_NUM
    sliding_window,  \* config.TRAIN.SLIDING_WINDOW
    use_pickle,      \* use_pickle argument of XRayDataset
    img_h, img_w,    \* image.shape[0], image.shape[1] after transforms
    \* ---- main(): XRayDataset(is_train=True), then XRayDataset(is_train=False)
    phase,           \* "train" | "valid" | "ready": dataset being constructed
    pc,              \* position inside XRayDataset.__init__, or the exception
    filenames,       \* self.filenames of the train / valid dataset
    labelnames,      \* self.labelnames of the train / valid dataset
    argsort_desc,    \* how the installed np.argsort orders equal keys
    got,             \* result of the last XRayDataset.__getitem__
    \* ---- XRayInferenceDataset ----
    inf_filenames,   \* self.filenames
    inf_built,       \* constructed
    inf_got,         \* result of the last XRayInferenceDataset.__getitem__
    \* ---- train() ----
    fp16,            \* config.TRAIN.FP16
    has_accum,       \* hasattr(config.TRAIN, 'ACCUMULATION_STEPS')
    accum_cfg,       \* config.TRAIN.ACCUMULATION_STEPS
    n_batches,       \* len(data_loader)
    epochs,          \* config.TRAIN.EPOCHS
    has_swa,         \* hasattr(config.TRAIN, 'SWA')
    swa_start,       \* config.TRAIN.SWA.START
    val_every,       \* config.TRAIN.VAL_EVERY
    tpc,             \* position inside train()
    epoch,           \* loop variable of the epoch loop (0-based)
    step,            \* number of batches of the epoch already processed
    grad,            \* batches whose gradient is held in the parameters' .grad
    stepped,         \* 1-based batch indices of the epoch at which the optimizer stepped
    applied,         \* per batch of the epoch: number of optimizer updates that used its gradient
    base_steps,      \* epochs (1-based) at which scheduler.step() was called
    swa_steps,       \* epochs (1-based) at which swa_scheduler.step() was called
    swa_updates,     \* number of swa_model.update_parameters calls
    swa_saved,       \* number of times the averaged model was saved
    val_log,         \* per finished epoch: <<dice>> of its validation, or <<>>
    best_dice, best_dice_epoch, best_rles,
    saves,           \* epochs at which save_model was called
    csv              \* the save_csv calls: <<rles, epoch>>

dvars == <<image_files, label_files, test_files, pickle_dir, has_val_num,
           val_num_cfg, sliding_window, use_pickle, img_h, img_w, phase, pc,
           filenames, labelnames, argsort_desc, got, inf_filenames, inf_built, inf_got>>

tvars == <<fp16, has_accum, accum_cfg, n_batches, epochs, has_swa, swa_start,
           val_every, tpc, epoch, step, grad, stepped, applied, base_steps, swa_steps,
           swa_updates, swa_saved, val_log, best_dice, best_dice_epoch,
           best_rles, saves, csv>>

vars == <<dvars, tvars>>

----------------------------------------------------------------------------
(* Bounds of the model                                                     *)

NDirs == 6          \* directories (patient folders) under the image root
MaxH == 9           \* largest image side drawn
MaxBatches == 3     \* largest len(data_loader)
MaxEpochs == 3      \* largest config.TRAIN.EPOCHS
MaxAccum == 3       \* largest config.TRAIN.ACCUMULATION_STEPS
MaxDice == 2        \* validation dice values are 0..MaxDice
MaxValEvery == 2    \* largest config.TRAIN.VAL_EVERY

(* Program constants                                                       *)

NSplits == 5        \* GroupKFold(n_splits=5)
NWindows == 9       \* range(9), item % 9
WindowsPerRow == 3  \* (item % 9) % 3, (item % 9) // 3

----------------------------------------------------------------------------
(* Strings                                                                 *)

\* Code points of the characters that occur in the file names drawn.
Ord ==
    [c \in {".", "/", "1", "2", "3", "4", "5", "6", "7", "8", "G", "N", "P",
            "a", "b", "g", "j", "k", "n", "o", "p", "s"} |->
        CASE c = "." -> 46 [] c = "/" -> 47
          [] c = "1" -> 49 [] c = "2" -> 50 [] c = "3" -> 51 [] c = "4" -> 52
          [] c = "5" -> 53 [] c = "6" -> 54 [] c = "7" -> 55 [] c = "8" -> 56
          [] c = "G" -> 71 [] c = "N" -> 78 [] c = "P" -> 80
          [] c = "a" -> 97 [] c = "b" -> 98 [] c = "g" -> 103
          [] c = "j" -> 106 [] c = "k" -> 107 [] c = "n" -> 110
          [] c = "o" -> 111 [] c = "p" -> 112 [] c = "s" -> 115]

\* str.lower() on one character.
LowerChar(c) ==
    CASE c = "G" -> "g" [] c = "N" -> "n" [] c = "P" -> "p" [] OTHER -> c

Lower(s) == [i \in 1..Len(s) |-> LowerChar(s[i])]

Max(S) == CHOOSE x \in S : \A y \in S : y <= x
Min(S) == CHOOSE x \in S : \A y \in S : x <= y

\* Python's str < str: lexicographic on code points, a proper prefix first.
StrLess(s, t) ==
    LET n == IF Len(s) < Len(t) THEN Len(s) ELSE Len(t)
        diff == {i \in 1..n : s[i] # t[i]}
    IN  IF diff = {} THEN Len(s) < Len(t)
        ELSE LET d == Min(diff) IN Ord[s[d]] < Ord[t[d]]

\* Index of the last "/" of a path, 0 when it has none.
LastSep(p) == Max({0} \cup {i \in 1..Len(p) : p[i] = "/"})

\* os.path.splitext: the extension starts at the last "." of the last
\* component, leading dots of the component not counted.
ExtIndex(p) ==
    LET sep == LastSep(p)
        dots == {i \in (sep + 1)..Len(p) :
                    /\ p[i] = "."
                    /\ \E j \in (sep + 1)..(i - 1) : p[j] # "."}
    IN  IF dots = {} THEN Len(p) + 1 ELSE Max(dots)

SplitextRoot(p) == SubSeq(p, 1, ExtIndex(p) - 1)
SplitextExt(p) == SubSeq(p, ExtIndex(p), Len(p))

\* os.path.dirname and os.path.basename of a relative path.
Dirname(p) == SubSeq(p, 1, LastSep(p) - 1)
Basename(p) == SubSeq(p, LastSep(p) + 1, Len(p))

\* sorted(S) for a set of strings.
InsertStr(x, s) ==
    LET k == Cardinality({i \in 1..Len(s) : StrLess(s[i], x)})
    IN  SubSeq(s, 1, k) \o <<x>> \o SubSeq(s, k + 1, Len(s))

RECURSIVE SortedStrs(_)
SortedStrs(S) ==
    IF S = {} THEN <<>>
    ELSE LET x == CHOOSE y \in S : TRUE
         IN  InsertStr(x, SortedStrs(S \ {x}))

Range(s) == {s[i] : i \in 1..Len(s)}

----------------------------------------------------------------------------
(* The file names drawn                                                    *)

DirChars == <<"1", "2", "3", "4", "5", "6", "7", "8">>
Dirs == 1..NDirs

PngExt == <<".", "p", "n", "g">>
JsonExt == <<".", "j", "s", "o", "n">>

\* <dir>/<stem><ext>
Path(d, stem, ext) == <<DirChars[d], "/">> \o stem \o ext

StemA == <<"a">>
StemAK == <<"a", ".", "k">>
StemB == <<"b">>
UpperPngExt == <<".", "P", "N", "G">>

----------------------------------------------------------------------------
(* XRayDataset.__init__                                                    *)

\* The relative paths of the files with extension ext, case ignored.
WalkExt(files, ext) ==
    {p \in files : Lower(SplitextExt(Basename(p))) = ext}

pngs == WalkExt(image_files, PngExt)
jsons == WalkExt(label_files, JsonExt)

jsons_fn_prefix == {SplitextRoot(p) : p \in jsons}
pngs_fn_prefix == {SplitextRoot(p) : p \in pngs}

\* Mutant: the second assertion is missing.
AssertsPassOneSided == Cardinality(jsons_fn_prefix \ pngs_fn_prefix) = 0

\* The two assert statements pass.
AssertsPass ==
    /\ Cardinality(jsons_fn_prefix \ pngs_fn_prefix) = 0
    /\ Cardinality(pngs_fn_prefix \ jsons_fn_prefix) = 0

all_filenames == SortedStrs(pngs)
all_labelnames == SortedStrs(jsons)

\* groups = [os.path.dirname(fname) for fname in _filenames]
GroupsOf(names) == [i \in 1..Len(names) |-> Dirname(names[i])]

ValNum == IF has_val_num THEN val_num_cfg ELSE 0

\* GroupKFold: np.unique(groups), the number of samples of each group.
UniqueGroups(gs) == SortedStrs(Range(gs))
GroupCount(gs, g) == Cardinality({i \in 1..Len(gs) : gs[i] = g})

\* np.argsort(n_samples_per_group)[::-1]: the group indices by descending
\* count. The order of equal counts is the sort kind's: desc draws it.
RECURSIVE ArgsortReversed(_, _, _)
ArgsortReversed(count, left, desc) ==
    IF left = {} THEN <<>>
    ELSE LET mx == Max({count[g] : g \in left})
             ties == {g \in left : count[g] = mx}
             g == IF desc THEN Max(ties) ELSE Min(ties)
         IN  <<g>> \o ArgsortReversed(count, left \ {g}, desc)

\* The greedy loop: each group, heaviest first, goes to the lightest fold
\* (np.argmin: the first of the lightest).
RECURSIVE GroupToFold(_, _, _, _)
GroupToFold(count, order, per_fold, g2f) ==
    IF order = <<>> THEN g2f
    ELSE LET g == Head(order)
             least == Min({per_fold[f] : f \in DOMAIN per_fold})
             lightest_fold == Min({f \in DOMAIN per_fold : per_fold[f] = least})
         IN  GroupToFold(count, Tail(order),
                         [per_fold EXCEPT ![lightest_fold] = @ + count[g]],
                         [g2f EXCEPT ![g] = lightest_fold])

\* The indices (1-based here) of the samples of fold f, ascending.
RECURSIVE IndicesWhere(_, _, _)
IndicesWhere(fold_of, f, i) ==
    IF i > Len(fold_of) THEN <<>>
    ELSE (IF fold_of[i] = f THEN <<i>> ELSE <<>>) \o IndicesWhere(fold_of, f, i + 1)

\* GroupKFold(n_splits=5).split(_, _, groups): the test indices of folds
\* 0..4, as the loop of __init__ receives them in y.
GroupKFoldSplit(gs, desc) ==
    LET uniq == UniqueGroups(gs)
        n == Len(uniq)
        count == [g \in 1..n |-> GroupCount(gs, uniq[g])]
        g2f == GroupToFold(count, ArgsortReversed(count, 1..n, desc),
                           [f \in 0..(NSplits - 1) |-> 0], [g \in 1..n |-> 0])
        fold_of == [i \in 1..Len(gs) |->
                       g2f[CHOOSE g \in 1..n : uniq[g] = gs[i]]]
    IN  [f \in 0..(NSplits - 1) |-> IndicesWhere(fold_of, f, 1)]

\* GroupKFold raises ValueError for fewer groups than splits.
TooFewGroups(gs) == Cardinality(Range(gs)) < NSplits

\* names[y] for an index array y.
Take(names, y) == [k \in 1..Len(y) |-> names[y[k]]]

\* Mutant: the train dataset leaves out fold 0 whatever VAL_NUM is.
KeptFoldsTrainSkipsZero(train, v) ==
    IF train THEN {f \in 0..(NSplits - 1) : f # 0}
    ELSE {f \in 0..(NSplits - 1) : f = v}

\* The folds the loop of __init__ keeps: all but val_num for the train
\* dataset, val_num alone for the validation dataset.
KeptFolds(train, v) ==
    IF train THEN {f \in 0..(NSplits - 1) : f # v}
    ELSE {f \in 0..(NSplits - 1) : f = v}

RECURSIVE ConcatFolds(_, _, _, _)
ConcatFolds(names, folds, kept, f) ==
    IF f > NSplits - 1 THEN <<>>
    ELSE (IF f \in kept THEN Take(names, folds[f]) ELSE <<>>)
         \o ConcatFolds(names, folds, kept, f + 1)

\* _labelnames[y] raises IndexError when y holds an index past its end.
IndexOutOfRange(names, folds, kept) ==
    \E f \in kept : \E k \in 1..Len(folds[f]) : folds[f][k] > Len(names)

is_train == phase = "train"

\* Lines 18-38: the directory walk and the two assertions.
Scan ==
    /\ phase \in {"train", "valid"}
    /\ pc = "scan"
    /\ pc' = IF AssertsPass THEN "split" ELSE "AssertionError"
    /\ UNCHANGED <<image_files, label_files, test_files, pickle_dir,
                   has_val_num, val_num_cfg, sliding_window, use_pickle,
                   img_h, img_w, phase, filenames, labelnames, argsort_desc,
                   got, inf_filenames, inf_built, inf_got>>
    /\ UNCHANGED tvars

\* Lines 40-72: the group k-fold split.
Split ==
    /\ phase \in {"train", "valid"}
    /\ pc = "split"
    /\ LET fns == all_filenames
           lns == all_labelnames
           groups == GroupsOf(fns)
       IN  IF TooFewGroups(groups)
           THEN /\ pc' = "ValueError"
                /\ UNCHANGED <<filenames, labelnames>>
           ELSE LET folds == GroupKFoldSplit(groups, argsort_desc)
                    kept == KeptFolds(is_train, ValNum)
                IN  IF IndexOutOfRange(lns, folds, kept)
                    THEN /\ pc' = "IndexError"
                         /\ UNCHANGED <<filenames, labelnames>>
                    ELSE /\ pc' = "cache"
                         /\ filenames' = [filenames EXCEPT ![phase] =
                                ConcatFolds(fns, folds, kept, 0)]
                         /\ labelnames' = [labelnames EXCEPT ![phase] =
                                ConcatFolds(lns, folds, kept, 0)]
    /\ UNCHANGED <<image_files, label_files, test_files, pickle_dir,
                   has_val_num, val_num_cfg, sliding_window, use_pickle,
                   img_h, img_w, phase, argsort_desc, got, inf_filenames,
                   inf_built, inf_got>>
    /\ UNCHANGED tvars

\* The two cache files of an image: <basename>_image.npz, <basename>_label.npz.
image_npy_path(image_name) == <<Basename(image_name), "_image.npz">>
label_npy_path(image_name) == <<Basename(image_name), "_label.npz">>

\* The files one iteration of the caching loop leaves in the directory.
CacheOne(dir, image_name) ==
    IF image_npy_path(image_name) \notin dir
    THEN dir \cup {image_npy_path(image_name), label_npy_path(image_name)}
    ELSE dir

\* for image_name, label_name in zip(self.filenames, self.labelnames)
RECURSIVE CacheAll(_, _, _)
CacheAll(dir, names, n) ==
    IF n = 0 THEN dir
    ELSE CacheOne(CacheAll(dir, names, n - 1), names[n])

\* Lines 74-83: the cache files are created.
Cache ==
    /\ phase \in {"train", "valid"}
    /\ pc = "cache"
    /\ pc' = "slide"
    /\ pickle_dir' =
          IF use_pickle
          THEN CacheAll(pickle_dir, filenames[phase],
                        Min({Len(filenames[phase]), Len(labelnames[phase])}))
          ELSE pickle_dir
    /\ UNCHANGED <<image_files, label_files, test_files, has_val_num,
                   val_num_cfg, sliding_window, use_pickle, img_h, img_w,
                   phase, filenames, labelnames, argsort_desc, got,
                   inf_filenames, inf_built, inf_got>>
    /\ UNCHANGED tvars

\* [item for item in names for _ in range(9)]
Repeat(names) ==
    [i \in 1..(NWindows * Len(names)) |-> names[((i - 1) \div NWindows) + 1]]

\* Line 86.
SlidingFilenames(fns, lns) == Repeat(fns)
\* Line 87: built from filenames.
SlidingLabelnames(fns, lns) == Repeat(fns)

\* Lines 85-87, and the return to main().
Slide ==
    /\ phase \in {"train", "valid"}
    /\ pc = "slide"
    /\ IF sliding_window
       THEN /\ filenames' = [filenames EXCEPT ![phase] =
                   SlidingFilenames(filenames[phase], labelnames[phase])]
            /\ labelnames' = [labelnames EXCEPT ![phase] =
                   SlidingLabelnames(filenames[phase], labelnames[phase])]
       ELSE UNCHANGED <<filenames, labelnames>>
    /\ phase' = IF phase = "train" THEN "valid" ELSE "ready"
    /\ pc' = IF phase = "train" THEN "scan" ELSE "done"
    /\ UNCHANGED <<image_files, label_files, test_files, pickle_dir,
                   has_val_num, val_num_cfg, sliding_window, use_pickle,
                   img_h, img_w, argsort_desc, got, inf_filenames, inf_built,
                   inf_got>>
    /\ UNCHANGED tvars


----------------------------------------------------------------------------
(* __getitem__                                                             *)

\* image[y0:y1, x0:x1, :] of an h x w image: a slice ends at the array's end.
Slice(y, x, size, h, w) ==
    [y0 |-> Min({y, h}), y1 |-> Min({y + size, h}),
     x0 |-> Min({x, w}), x1 |-> Min({x + size, w})]

WholeImage(h, w) == [y0 |-> 0, y1 |-> h, x0 |-> 0, x1 |-> w]

\* Mutant: the row offset is computed like the column offset.
XRayWindowRowLikeColumn(item, h, w) ==
    LET window_size == h \div 2
        stride == window_size \div 2
        x == ((item % NWindows) % WindowsPerRow) * stride
        y == ((item % NWindows) % WindowsPerRow) * stride
    IN  Slice(y, x, window_size, h, w)

\* Mutant: the windows do not overlap (the stride is the window size).
XRayWindowNoOverlap(item, h, w) ==
    LET window_size == h \div 2
        stride == window_size
        x == ((item % NWindows) % WindowsPerRow) * stride
        y == ((item % NWindows) \div WindowsPerRow) * stride
    IN  Slice(y, x, window_size, h, w)

\* XRayDataset.__getitem__, lines 132-139.
XRayWindow(item, h, w) ==
    LET window_size == h \div 2
        stride == window_size \div 2
        x == ((item % NWindows) % WindowsPerRow) * stride
        y == ((item % NWindows) \div WindowsPerRow) * stride
    IN  Slice(y, x, window_size, h, w)

\* XRayInferenceDataset.__getitem__, lines 186-191.
InferenceWindow(item, h, w) ==
    LET window_size == h \div 2
        stride == window_size \div 2
        x == ((item % NWindows) % WindowsPerRow) * stride
        y == ((item % NWindows) \div WindowsPerRow) * stride
    IN  Slice(y, x, window_size, h, w)

NoWindow == [y0 |-> 0, y1 |-> 0, x0 |-> 0, x1 |-> 0]
NotGot == [ds |-> "none", item |-> 0, file |-> <<>>, status |-> "none",
           win |-> NoWindow]

\* np.load of the two cache files succeeds.
CanLoad(dir, image_name) ==
    /\ image_npy_path(image_name) \in dir
    /\ label_npy_path(image_name) \in dir

\* XRayDataset.__getitem__(item) of the train or the validation dataset.
GetItemAt(ds, item) ==
    LET image_name == filenames[ds][item + 1]
    IN  got' = [ds |-> ds, item |-> item, file |-> image_name,
                status |-> IF CanLoad(pickle_dir, image_name)
                           THEN "ok" ELSE "FileNotFoundError",
                win |-> IF ~CanLoad(pickle_dir, image_name) THEN NoWindow
                        ELSE IF sliding_window
                             THEN XRayWindow(item, img_h, img_w)
                             ELSE WholeImage(img_h, img_w)]

GetItem ==
    /\ phase = "ready"
    /\ \E ds \in {"train", "valid"} :
          \E item \in 0..(Len(filenames[ds]) - 1) : GetItemAt(ds, item)
    /\ UNCHANGED <<image_files, label_files, test_files, pickle_dir,
                   has_val_num, val_num_cfg, sliding_window, use_pickle,
                   img_h, img_w, phase, pc, filenames, labelnames,
                   argsort_desc, inf_filenames, inf_built, inf_got>>
    /\ UNCHANGED tvars

\* XRayInferenceDataset.__init__, lines 151-169.
InferenceFilenames(files, sliding) ==
    LET sorted == SortedStrs(WalkExt(files, PngExt))
    IN  IF sliding THEN Repeat(sorted) ELSE sorted

InfInit ==
    /\ phase = "ready"
    /\ ~inf_built
    /\ inf_built' = TRUE
    /\ inf_filenames' = InferenceFilenames(test_files, sliding_window)
    /\ UNCHANGED <<image_files, label_files, test_files, pickle_dir,
                   has_val_num, val_num_cfg, sliding_window, use_pickle,
                   img_h, img_w, phase, pc, filenames, labelnames,
                   argsort_desc, got, inf_got>>
    /\ UNCHANGED tvars

\* XRayInferenceDataset.__getitem__(item), lines 174-199.
InfGetItem ==
    /\ inf_built
    /\ \E item \in 0..(Len(inf_filenames) - 1) :
          inf_got' = [ds |-> "test", item |-> item,
                      file |-> inf_filenames[item + 1], status |-> "ok",
                      win |-> IF sliding_window
                              THEN InferenceWindow(item, img_h, img_w)
                              ELSE WholeImage(img_h, img_w)]
    /\ UNCHANGED <<image_files, label_files, test_files, pickle_dir,
                   has_val_num, val_num_cfg, sliding_window, use_pickle,
                   img_h, img_w, phase, pc, filenames, labelnames,
                   argsort_desc, got, inf_filenames, inf_built>>
    /\ UNCHANGED tvars

----------------------------------------------------------------------------
(* Initial states of the dataset specifications                            *)

\* train() is not running.
TrainIdle ==
    /\ fp16 = FALSE /\ has_accum = FALSE /\ accum_cfg = 1
    /\ n_batches = 0 /\ epochs = 0 /\ has_swa = FALSE /\ swa_start = 1
    /\ val_every = 1 /\ tpc = "idle" /\ epoch = 0 /\ step = 0
    /\ grad = {} /\ stepped = {} /\ applied = <<>>
    /\ base_steps = <<>> /\ swa_steps = <<>>
    /\ swa_updates = 0 /\ swa_saved = 0 /\ val_log = <<>>
    /\ best_dice = 0 /\ best_dice_epoch = 0 /\ best_rles = 0
    /\ saves = {} /\ csv = <<>>

\* main() is about to construct the train dataset.
MainStart ==
    /\ phase = "train" /\ pc = "scan"
    /\ filenames = [ds \in {"train", "valid"} |-> <<>>]
    /\ labelnames = [ds \in {"train", "valid"} |-> <<>>]
    /\ got = NotGot
    /\ inf_filenames = <<>> /\ inf_built = FALSE /\ inf_got = NotGot

\* The label files that match the image files one to one.
LabelsOf(images) == {SplitextRoot(p) \o JsonExt : p \in images}

\* a.png in each of the first n directories, a.k.png too in those of big.
Tree(n, big) ==
    {Path(d, StemA, PngExt) : d \in 1..n}
        \cup {Path(d, StemAK, PngExt) : d \in big}

\* Patient folders of one or two images, matching labels, any VAL_NUM.
InitSplit ==
    /\ \E n \in (NSplits - 1)..NDirs : \E big \in SUBSET (1..n) :
          /\ image_files = Tree(n, big)
          /\ label_files = LabelsOf(Tree(n, big))
    /\ test_files = {}
    /\ pickle_dir = {}
    /\ \/ has_val_num = FALSE /\ val_num_cfg = 0
       \/ has_val_num = TRUE /\ val_num_cfg \in 0..(NSplits - 1)
    /\ sliding_window \in BOOLEAN
    /\ use_pickle = TRUE
    /\ img_h = 4 /\ img_w = 4
    /\ argsort_desc \in BOOLEAN
    /\ MainStart
    /\ TrainIdle

\* Any image and label names in the first folder, one pair in each other.
InitNames ==
    /\ \E im \in SUBSET {Path(1, StemA, PngExt), Path(1, StemAK, PngExt),
                         Path(1, StemB, PngExt), Path(1, StemB, UpperPngExt)} :
          image_files = im \cup {Path(d, StemA, PngExt) : d \in Dirs \ {1}}
    /\ \E lb \in SUBSET {Path(1, StemA, JsonExt), Path(1, StemAK, JsonExt),
                         Path(1, StemB, JsonExt)} :
          label_files = lb \cup {Path(d, StemA, JsonExt) : d \in Dirs \ {1}}
    /\ test_files = {}
    /\ pickle_dir = {}
    /\ has_val_num = FALSE /\ val_num_cfg = 0
    /\ sliding_window \in BOOLEAN
    /\ use_pickle = TRUE
    /\ img_h = 4 /\ img_w = 4
    /\ argsort_desc \in BOOLEAN
    /\ MainStart
    /\ TrainIdle

\* Any prior content of the cache directory.
InitCache ==
    /\ \E big \in SUBSET {1} :
          /\ image_files = Tree(NDirs, big)
          /\ label_files = LabelsOf(Tree(NDirs, big))
    /\ test_files = {}
    /\ pickle_dir \in SUBSET
          {image_npy_path(StemA \o PngExt), label_npy_path(StemA \o PngExt),
           image_npy_path(StemAK \o PngExt), label_npy_path(StemAK \o PngExt)}
    /\ has_val_num = FALSE /\ val_num_cfg = 0
    /\ sliding_window \in BOOLEAN
    /\ use_pickle \in BOOLEAN
    /\ img_h = 4 /\ img_w = 4
    /\ argsort_desc \in BOOLEAN
    /\ MainStart
    /\ TrainIdle

\* Any image size after the transforms.
InitWindow ==
    /\ image_files = Tree(NSplits, {})
    /\ label_files = LabelsOf(Tree(NSplits, {}))
    /\ test_files = {Path(1, StemB, UpperPngExt), Path(1, StemB, JsonExt)}
    /\ pickle_dir = {}
    /\ has_val_num = FALSE /\ val_num_cfg = 0
    /\ sliding_window \in BOOLEAN
    /\ use_pickle = TRUE
    /\ img_h \in 1..MaxH
    /\ img_w \in {img_h, MaxH}
    /\ argsort_desc = TRUE
    /\ MainStart
    /\ TrainIdle

NextConstruct == Scan \/ Split \/ Cache \/ Slide
NextCache == Scan \/ Split \/ Cache \/ Slide \/ GetItem
NextWindow == Scan \/ Split \/ Cache \/ Slide \/ GetItem \/ InfInit \/ InfGetItem

SpecSplit == InitSplit /\ [][NextConstruct]_vars
SpecNames == InitNames /\ [][NextConstruct]_vars
SpecCache == InitCache /\ [][NextCache]_vars
SpecWindow == InitWindow /\ [][NextWindow]_vars

----------------------------------------------------------------------------
(* train()                                                                 *)

\* Lines 126-129.
accumulation_steps == IF has_accum THEN accum_cfg ELSE 1

\* Lines 131-136: the head of the epoch loop, model.train() and the
\* optimizer.zero_grad() that opens an epoch.
EpochHead ==
    /\ tpc = "loop"
    /\ IF epoch < epochs
       THEN /\ tpc' = IF n_batches = 0 THEN "epoch_end" ELSE "batch"
            /\ step' = 0
            /\ grad' = {}
            /\ stepped' = {}
            /\ applied' = [b \in 1..n_batches |-> 0]
       ELSE /\ tpc' = "finish"
            /\ UNCHANGED <<step, grad, stepped, applied>>
    /\ UNCHANGED <<fp16, has_accum, accum_cfg, n_batches, epochs, has_swa,
                   swa_start, val_every, epoch, base_steps, swa_steps,
                   swa_updates, swa_saved, val_log, best_dice,
                   best_dice_epoch, best_rles, saves, csv>>
    /\ UNCHANGED dvars

\* Line 150: the FP16 branch steps the optimizer at these batches.
Fp16StepsAt(b) == b % accumulation_steps = 0 \/ b = n_batches

\* Lines 157-160: the FP32 branch steps the optimizer at these batches.
Fp32StepsAt(b) == TRUE

\* Lines 151-153: the FP16 branch calls optimizer.zero_grad() after the step.
Fp16ZeroGradAfterStep == TRUE

\* Lines 157-160: the FP32 branch has no zero_grad() after the step.
Fp32ZeroGradAfterStep == FALSE

\* Lines 138-171: one batch. backward() adds the batch's gradient to .grad;
\* an optimizer step applies what .grad holds.
Batch ==
    /\ tpc = "batch"
    /\ step < n_batches
    /\ LET b == step + 1
           held == grad \cup {b}
           steps == IF fp16 THEN Fp16StepsAt(b) ELSE Fp32StepsAt(b)
           zeroes == IF fp16 THEN Fp16ZeroGradAfterStep
                     ELSE Fp32ZeroGradAfterStep
       IN  /\ stepped' = IF steps THEN stepped \cup {b} ELSE stepped
           /\ applied' = IF steps
                         THEN [c \in 1..n_batches |->
                                  IF c \in held THEN applied[c] + 1
                                  ELSE applied[c]]
                         ELSE applied
           /\ grad' = IF steps /\ zeroes THEN {} ELSE held
           /\ step' = b
           /\ tpc' = IF b = n_batches THEN "epoch_end" ELSE "batch"
    /\ UNCHANGED <<fp16, has_accum, accum_cfg, n_batches, epochs, has_swa,
                   swa_start, val_every, epoch, base_steps, swa_steps,
                   swa_updates, swa_saved, val_log, best_dice,
                   best_dice_epoch, best_rles, saves, csv>>
    /\ UNCHANGED dvars

\* Mutant: the 0-based epoch is compared with SWA.START.
InSwaPhaseZeroBased(e) == has_swa /\ e >= swa_start

\* Lines 173-174: the epoch belongs to the SWA phase.
InSwaPhase(e) == has_swa /\ e + 1 >= swa_start

\* Line 184: validation runs after this epoch.
ValidatesAt(e) == (e + 1) % val_every = 0

\* Mutant: a validation that only equals the best replaces it.
IsNewBestOrEqual(best, dice) == best <= dice

\* Line 188: the validation result is a new best.
IsNewBest(best, dice) == best < dice

\* Lines 173-194: the scheduler step and the validation that end an epoch.
EpochEnd ==
    /\ tpc = "epoch_end"
    /\ IF InSwaPhase(epoch)
       THEN /\ swa_updates' = swa_updates + 1
            /\ swa_steps' = Append(swa_steps, epoch + 1)
            /\ UNCHANGED base_steps
       ELSE /\ base_steps' = Append(base_steps, epoch + 1)
            /\ UNCHANGED <<swa_updates, swa_steps>>
    /\ IF ValidatesAt(epoch)
       THEN \E dice \in 0..MaxDice :
               /\ val_log' = Append(val_log, <<dice>>)
               /\ IF IsNewBest(best_dice, dice)
                  THEN /\ best_dice' = dice
                       /\ best_dice_epoch' = epoch + 1
                       /\ best_rles' = epoch + 1
                       /\ saves' = saves \cup {epoch + 1}
                  ELSE UNCHANGED <<best_dice, best_dice_epoch, best_rles,
                                   saves>>
       ELSE /\ val_log' = Append(val_log, <<>>)
            /\ UNCHANGED <<best_dice, best_dice_epoch, best_rles, saves>>
    /\ epoch' = epoch + 1
    /\ tpc' = "loop"
    /\ UNCHANGED <<fp16, has_accum, accum_cfg, n_batches, epochs, has_swa,
                   swa_start, val_every, step, grad, stepped, applied,
                   swa_saved, csv>>
    /\ UNCHANGED dvars

\* Line 196: "if best_rles:". best_rles is None (0 here) or the dictionary of
\* a validation, which holds three keys and so is true.
HasBestRles == best_rles # 0

\* Line 199.
SavesSwaModel == has_swa

\* Lines 196-207: the result CSV and the averaged model.
Finish ==
    /\ tpc = "finish"
    /\ csv' = IF HasBestRles
              THEN Append(csv, <<best_rles, best_dice_epoch>>) ELSE csv
    /\ swa_saved' = IF SavesSwaModel THEN swa_saved + 1 ELSE swa_saved
    /\ tpc' = "done"
    /\ UNCHANGED <<fp16, has_accum, accum_cfg, n_batches, epochs, has_swa,
                   swa_start, val_every, epoch, step, grad, stepped, applied,
                   base_steps, swa_steps, swa_updates, val_log, best_dice,
                   best_dice_epoch, best_rles, saves>>
    /\ UNCHANGED dvars

\* The datasets are not under construction.
DataIdle ==
    /\ image_files = {} /\ label_files = {} /\ test_files = {}
    /\ pickle_dir = {} /\ has_val_num = FALSE /\ val_num_cfg = 0
    /\ sliding_window = FALSE /\ use_pickle = TRUE /\ img_h = 4 /\ img_w = 4
    /\ phase = "idle" /\ pc = "idle"
    /\ filenames = [ds \in {"train", "valid"} |-> <<>>]
    /\ labelnames = [ds \in {"train", "valid"} |-> <<>>]
    /\ argsort_desc = TRUE /\ got = NotGot
    /\ inf_filenames = <<>> /\ inf_built = FALSE /\ inf_got = NotGot

\* Lines 113-129: train() is entered with any configuration.
InitTrain ==
    /\ fp16 \in BOOLEAN
    /\ \/ has_accum = FALSE /\ accum_cfg = 1
       \/ has_accum = TRUE /\ accum_cfg \in 1..MaxAccum
    /\ n_batches \in 0..MaxBatches
    /\ epochs \in 0..MaxEpochs
    /\ \/ has_swa = FALSE /\ swa_start = 1
       \/ has_swa = TRUE /\ swa_start \in 1..(MaxEpochs + 1)
    /\ val_every \in 1..MaxValEvery
    /\ tpc = "loop" /\ epoch = 0 /\ step = 0
    /\ grad = {} /\ stepped = {} /\ applied = <<>>
    /\ base_steps = <<>> /\ swa_steps = <<>>
    /\ swa_updates = 0 /\ swa_saved = 0 /\ val_log = <<>>
    /\ best_dice = 0 /\ best_dice_epoch = 0 /\ best_rles = 0
    /\ saves = {} /\ csv = <<>>
    /\ DataIdle

NextTrain == EpochHead \/ Batch \/ EpochEnd \/ Finish

SpecTrain == InitTrain /\ [][NextTrain]_vars

----------------------------------------------------------------------------
(* The training loop: C7 - C10                                             *)

\* C7: with ACCUMULATION_STEPS = k configured the optimizer is stepped
\* exactly at the batches whose 1-based index is a multiple of k and at the
\* last batch of the epoch, with FP16 on or off; with ACCUMULATION_STEPS
\* not configured it is stepped at every batch.
C7_OptimizerSteppedAtAccumulationBoundaries ==
    stepped = {b \in 1..step :
                  IF has_accum THEN b % accum_cfg = 0 \/ b = n_batches
                  ELSE TRUE}

\* C8: the gradient of each batch is included in exactly one optimizer
\* update: no update re-applies the gradient of a batch that an earlier
\* update used, and none is left unapplied when the epoch's batches are done.
C8_EachGradientAppliedExactlyOnce ==
    /\ \A b \in DOMAIN applied : applied[b] <= 1
    /\ (tpc = "epoch_end" => \A b \in DOMAIN applied : applied[b] = 1)

\* The epochs 1..n at which a scheduler was stepped, in order.
EpochsFromTo(a, b) == [i \in 1..(IF b >= a THEN b - a + 1 ELSE 0) |-> a + i - 1]

\* The number of finished epochs that precede the SWA phase.
BaseEpochs ==
    IF has_swa /\ swa_start - 1 < epoch
    THEN (IF swa_start >= 1 THEN swa_start - 1 ELSE 0)
    ELSE epoch

\* C9: in every epoch exactly one scheduler is stepped, once: the base
\* scheduler in the epochs with epoch+1 < SWA.START (every epoch without
\* SWA), the SWA scheduler together with an update of the averaged model in
\* the epochs with epoch+1 >= SWA.START, so that no base step follows a SWA
\* step; the averaged model is saved once, after the last epoch, exactly
\* when SWA is configured, and without SWA it is never updated.
C9_OneSchedulerPerEpoch ==
    /\ base_steps = EpochsFromTo(1, BaseEpochs)
    /\ swa_steps = EpochsFromTo(BaseEpochs + 1, epoch)
    /\ swa_updates = Len(swa_steps)
    /\ (~has_swa => swa_steps = <<>> /\ swa_updates = 0)
    /\ swa_saved = IF tpc = "done" /\ has_swa THEN 1 ELSE 0

\* C9's case: training with SWA ended after base epochs and SWA epochs.
C9_Witness ==
    /\ tpc = "done" /\ has_swa
    /\ Len(base_steps) >= 1 /\ Len(swa_steps) >= 2
    /\ swa_saved = 1

\* The validation dice values of the epochs 1..n.
DiceSeen(n) == {val_log[e][1] : e \in {x \in 1..n : val_log[x] # <<>>}}

\* The best dice after epoch n: the maximum of 0 and the values seen.
BestAfter(n) == Max({0} \cup DiceSeen(n))

\* The earliest epoch whose validation reached the best dice.
EarliestBest ==
    Min({e \in 1..Len(val_log) :
            val_log[e] # <<>> /\ val_log[e][1] = BestAfter(Len(val_log))})

C10_State ==
    /\ Len(val_log) = epoch
    /\ \A e \in 1..Len(val_log) : (val_log[e] # <<>>) <=> (e % val_every = 0)
    /\ best_dice = BestAfter(Len(val_log))
    /\ saves = {e \in 1..Len(val_log) :
                   val_log[e] # <<>> /\ val_log[e][1] > BestAfter(e - 1)}
    /\ csv = IF tpc = "done" /\ BestAfter(Len(val_log)) > 0
             THEN << <<EarliestBest, EarliestBest>> >>
             ELSE <<>>

\* C10: validation runs exactly at the epochs whose 1-based number is a
\* multiple of VAL_EVERY; best_dice never decreases and is the maximum of 0
\* and the dice values seen; the checkpoint is saved exactly at the
\* validations whose dice is strictly greater than the best before; the
\* result CSV is written at most once, after the last epoch, with the RLEs
\* and the number of the earliest epoch that reached the maximum dice, and
\* not at all when no dice exceeded 0.
C10_ValidationAndBestDice ==
    /\ []C10_State
    /\ [][best_dice' >= best_dice]_vars

\* C10's case: the maximum dice was reached twice and a lower one came
\* in between; the CSV of the earlier epoch was written.
C10_Witness ==
    /\ tpc = "done" /\ val_every = 1
    /\ Len(val_log) = 3
    /\ val_log[1] = <<2>> /\ val_log[2] = <<1>> /\ val_log[3] = <<2>>
    /\ csv = << <<1, 1>> >>

----------------------------------------------------------------------------
(* The datasets: C1 - C6                                                   *)

\* The file list of a split before the sliding-window repetition.
SplitList(ds) ==
    LET fns == all_filenames
    IN  ConcatFolds(fns, GroupKFoldSplit(GroupsOf(fns), argsort_desc),
                    KeptFolds(ds = "train", ValNum), 0)

\* The images of fold f.
FoldFiles(f) ==
    LET fns == all_filenames
    IN  Range(Take(fns, GroupKFoldSplit(GroupsOf(fns), argsort_desc)[f]))

DirsOf(names) == {Dirname(names[i]) : i \in 1..Len(names)}

Built == IF phase = "ready" THEN {"train", "valid"}
         ELSE IF phase = "valid" THEN {"train"} ELSE {}

\* C2: after construction, sliding window on or off, filenames[i] and
\* labelnames[i] are the image and the annotation of the same example:
\* labelnames[i] is a JSON path with the relative path, extension dropped,
\* of filenames[i].
C2_LabelnamesPairedWithFilenames ==
    \A ds \in Built :
        /\ Len(labelnames[ds]) = Len(filenames[ds])
        /\ \A i \in 1..Len(filenames[ds]) :
              /\ i <= Len(labelnames[ds])
              /\ Lower(SplitextExt(Basename(labelnames[ds][i]))) = JsonExt
              /\ SplitextRoot(labelnames[ds][i]) = SplitextRoot(filenames[ds][i])

\* C3: after construction with use_pickle=True, whatever the cache
\* directory held before, every file of the dataset has its cached image
\* array and its cached label array, and __getitem__ loads every index.
C3_EveryFileCached ==
    /\ \A ds \in Built :
          use_pickle =>
             \A i \in 1..Len(filenames[ds]) :
                 CanLoad(pickle_dir, filenames[ds][i])
    /\ (use_pickle => got.status # "FileNotFoundError")

\* C4: the construction ends in an assertion error exactly when the PNG
\* and the JSON relative paths without extension differ as sets, and then
\* no split has been computed and no cache file written.
C4_AssertsGuardFilenameSets ==
    /\ pc # "scan" =>
          ((pc = "AssertionError") <=> (pngs_fn_prefix # jsons_fn_prefix))
    /\ pc = "AssertionError" =>
          /\ \A ds \in {"train", "valid"} :
                filenames[ds] = <<>> /\ labelnames[ds] = <<>>
          /\ pickle_dir = {}

\* C4's case: an image without annotation stopped the construction.
C4_Witness ==
    /\ pc = "AssertionError"
    /\ jsons_fn_prefix \ pngs_fn_prefix = {}
    /\ pngs_fn_prefix \ jsons_fn_prefix # {}

\* The crop C5 states for index item of an h x h image.
C5_Crop(item, h) ==
    LET k == item % 9
        side == h \div 2
        stride == side \div 2
    IN  [y0 |-> (k \div 3) * stride, y1 |-> (k \div 3) * stride + side,
         x0 |-> (k % 3) * stride, x1 |-> (k % 3) * stride + side]

\* C5: with sliding window on, a dataset has 9 entries per file of its
\* split; __getitem__(i) crops the file at position i // 9 with window
\* i % 9: column (k % 3) * stride, row (k // 3) * stride, side H // 2,
\* stride (H // 2) // 2; in a square image the crop lies inside the image
\* with side exactly H // 2; both dataset classes map alike.
C5_SlidingWindowIndexing ==
    sliding_window =>
        /\ \A ds \in Built : Len(filenames[ds]) = 9 * Len(SplitList(ds))
        /\ got.status = "ok" =>
              /\ got.file = SplitList(got.ds)[(got.item \div 9) + 1]
              /\ img_h = img_w =>
                    /\ got.win = C5_Crop(got.item, img_h)
                    /\ got.win.y1 <= img_h /\ got.win.x1 <= img_w
                    /\ got.win.y1 - got.win.y0 = img_h \div 2
                    /\ got.win.x1 - got.win.x0 = img_h \div 2
        /\ inf_built =>
              Len(inf_filenames) = 9 * Cardinality(WalkExt(test_files, PngExt))
        /\ inf_got.status = "ok" =>
              /\ inf_got.file =
                    SortedStrs(WalkExt(test_files, PngExt))[(inf_got.item \div 9) + 1]
              /\ img_h = img_w => inf_got.win = C5_Crop(inf_got.item, img_h)
        /\ (got.status = "ok" /\ inf_got.status = "ok"
              /\ got.item = inf_got.item) => got.win = inf_got.win

\* C5's case: the last window of the second file of the train dataset and
\* the last window of the inference dataset, in a square image.
C5_Witness ==
    /\ sliding_window /\ img_h = img_w /\ img_h = 8
    /\ got.status = "ok" /\ got.ds = "train" /\ got.item = 17
    /\ got.win = [y0 |-> 4, y1 |-> 8, x0 |-> 4, x1 |-> 8]
    /\ inf_got.status = "ok" /\ inf_got.item = 8

\* The 9 windows of image j of an h x h image cover every pixel.
Covers(Window(_, _, _), j, h) ==
    \A py \in 0..(h - 1) : \A px \in 0..(h - 1) :
        \E k \in 0..8 :
            LET win == Window(9 * j + k, h, h)
            IN  /\ win.y0 <= py /\ py < win.y1
                /\ win.x0 <= px /\ px < win.x1

\* C6 as stated: for every square image of side H >= 1 the 9 windows of an
\* image cover every pixel of it.
C6_WindowsCoverEverySquareImage ==
    (sliding_window /\ img_h = img_w) =>
        /\ got.status = "ok" => Covers(XRayWindow, got.item \div 9, img_h)
        /\ inf_got.status = "ok" =>
              Covers(InferenceWindow, inf_got.item \div 9, img_h)

\* C6 amended: the 9 windows of a square image of side H cover every pixel
\* when H is a multiple of 4, and leave pixels out for any other side.
C6_WindowsCoverWhenSideMultipleOfFour ==
    (sliding_window /\ img_h = img_w) =>
        /\ got.status = "ok" =>
              (Covers(XRayWindow, got.item \div 9, img_h) <=> img_h % 4 = 0)
        /\ inf_got.status = "ok" =>
              (Covers(InferenceWindow, inf_got.item \div 9, img_h)
                  <=> img_h % 4 = 0)

\* C6's case: the windows of an 8 x 8 image were drawn from both datasets.
C6_Witness ==
    /\ sliding_window /\ img_h = 8 /\ img_w = 8
    /\ got.status = "ok" /\ got.item % 9 = 4
    /\ inf_got.status = "ok" /\ inf_got.item % 9 = 0

====
